---- MODULE Spec2Model ----
(***************************************************************************)
(* Model of the account-balance fetcher of rosetta-sdk-go:                 *)
(*   fetcher/account.go   UnsafeAccountBalance, AccountBalance,            *)
(*                         AccountBalanceRetry                              *)
(* on top of the generated client (client/api_*.go) and the asserter.      *)
(*                                                                         *)
(* Go values are modelled as follows.  A pointer or an error that may be   *)
(* nil is a sequence of length 0 (nil) or 1 (the value).  A Go error value *)
(* is a record [kind, msg, code, retriable]; the last two fields carry the *)
(* text that fmt.Errorf("%+v", v) prints for a types.Error and are filled  *)
(* with Nil / "" for every other error.                                    *)
(***************************************************************************)
EXTENDS Integers, Sequences, FiniteSets, TLC

(***************************************************************************)
(* Bounds of the model.                                                    *)
(***************************************************************************)
MaxRetriesBound == 2      \* maxRetries ranges over 0..MaxRetriesBound
MaxElapsedBound == 4      \* maxElapsedTime ranges over 0..MaxElapsedBound ticks
MaxCallTime == 1          \* one Transport call takes 0..MaxCallTime ticks
MaxJitter == 1            \* a backoff wait is lengthened by 0..MaxJitter ticks
MaxListLen == 2           \* the lists handed to the asserter hold 0..MaxListLen entries
MaxCode == 2              \* the codes of an error catalog range over 0..MaxCode

\* Cap on the Transport calls of one run; above every maxRetries + 1.
MaxCalls == MaxRetriesBound + 2

StatusOK == 200

Nil == << >>
Some(v) == << v >>

(***************************************************************************)
(* Go error values.                                                        *)
(***************************************************************************)
GoError(kind, msg) ==
    [kind |-> kind, msg |-> msg, code |-> Nil, retriable |-> ""]

\* errors.New("exhausted retries for account")
ExhaustedRetries == GoError("errors.New", "exhausted retries for account")

\* fmt.Errorf("%+v", v) for a types.Error v: the text holds every field of v.
FmtErrorf(v) ==
    [kind |-> "fmt.Errorf", msg |-> v.message, code |-> Some(v.code),
     retriable |-> v.retriable]

\* errors.Unwrap: errors.New and fmt.Errorf without %w wrap nothing.
Unwrap(e) == Nil

(***************************************************************************)
(* Wire data.                                                              *)
(***************************************************************************)
BTC == [symbol |-> "BTC", decimals |-> 8]
ETH == [symbol |-> "ETH", decimals |-> 18]

Amt(value, currency) == [value |-> value, currency |-> currency]
Bal(address, amounts) ==
    [account_identifier |-> [address |-> address], amounts |-> amounts]

ValidBlock == [index |-> 1000, hash |-> "jsakdl"]
NextBlock == [index |-> 1001, hash |-> "qwerty"]
InvalidBlock == [index |-> 1, hash |-> ""]

\* types.AccountBalanceResponse values a node may send.
Responses ==
    { [block_identifier |-> ValidBlock,
       balances |-> << Bal("acct1", << Amt("100", BTC) >>) >>],
      [block_identifier |-> NextBlock,
       balances |-> << Bal("acct1", << Amt("100", BTC), Amt("7", ETH) >>) >>],
      [block_identifier |-> InvalidBlock,
       balances |-> << Bal("acct1", << Amt("100", BTC) >>) >>],
      [block_identifier |-> ValidBlock,
       balances |-> << Bal("acct1", << Amt("100", BTC), Amt("100", BTC) >>) >>],
      [block_identifier |-> ValidBlock,
       balances |-> << Bal("acct1", << Amt("100", BTC) >>),
                       Bal("acct1", << Amt("100", BTC) >>) >>] }

\* types.Error values a node may send; the retriable flag is optional.
DomainErrors ==
    { [code |-> 12, message |-> "signature invalid", retriable |-> r] :
        r \in {"absent", "false", "true"} }

(***************************************************************************)
(* asserter: the checks behind asserter.AccountBalance.  Each returns Nil  *)
(* or Some(error), the first violation found.                              *)
(***************************************************************************)
AssertError(msg) == GoError("asserter", msg)

\* asserter.BlockIdentifier: non-negative index, non-empty hash.
BlockIdentifier(block) ==
    IF block.index < 0 THEN Some(AssertError("BlockIdentifier.Index is negative"))
    ELSE IF block.hash = "" THEN Some(AssertError("BlockIdentifier.Hash is missing"))
    ELSE Nil

\* asserter.AccountIdentifier: non-empty address.
AccountIdentifier(account) ==
    IF account.address = "" THEN Some(AssertError("Account.Address is missing"))
    ELSE Nil

\* Mutant: the metadata is left out of the comparison.
containsCurrencyNoMetadata(currencies, currency) ==
    \E i \in 1..Len(currencies) :
        /\ currencies[i].symbol = currency.symbol
        /\ currencies[i].decimals = currency.decimals

\* Structural equality against every element of a list.
containsCurrency(currencies, currency) ==
    \E i \in 1..Len(currencies) : currencies[i] = currency

containsAccountIdentifier(identifiers, account) ==
    \E i \in 1..Len(identifiers) : identifiers[i] = account

\* The first amount of one balance whose currency an earlier amount uses.
RECURSIVE DuplicateCurrency(_, _)
DuplicateCurrency(amounts, seen) ==
    IF amounts = << >> THEN Nil
    ELSE IF containsCurrency(seen, Head(amounts).currency)
         THEN Some(AssertError("currency used in balance multiple times"))
         ELSE DuplicateCurrency(Tail(amounts),
                                Append(seen, Head(amounts).currency))

\* Each entry in order: its account identifier, then its currency set.
RECURSIVE CheckEntries(_)
CheckEntries(balances) ==
    IF balances = << >> THEN Nil
    ELSE LET a == AccountIdentifier(Head(balances).account_identifier)
             c == DuplicateCurrency(Head(balances).amounts, << >>)
         IN  IF a # Nil THEN a
             ELSE IF c # Nil THEN c
             ELSE CheckEntries(Tail(balances))

\* Across the entries: the first account identifier an earlier entry uses.
RECURSIVE DuplicateAccount(_, _)
DuplicateAccount(balances, seen) ==
    IF balances = << >> THEN Nil
    ELSE IF containsAccountIdentifier(seen, Head(balances).account_identifier)
         THEN Some(AssertError("account identifier used in balance multiple times"))
         ELSE DuplicateAccount(Tail(balances),
                               Append(seen, Head(balances).account_identifier))

\* Mutant: the entries are looked at before the block.
AssertAccountBalanceEntriesFirst(block, balances) ==
    LET b == BlockIdentifier(block)
        e == CheckEntries(balances)
    IN  IF e # Nil THEN e
        ELSE IF b # Nil THEN b
        ELSE DuplicateAccount(balances, << >>)

\* asserter.AccountBalance(block, balances)
AssertAccountBalance(block, balances) ==
    LET b == BlockIdentifier(block)
        e == CheckEntries(balances)
    IN  IF b # Nil THEN b
        ELSE IF e # Nil THEN e
        ELSE DuplicateAccount(balances, << >>)

(***************************************************************************)
(* Transport: client.AccountAPI.AccountBalance, the generated operation    *)
(* of the same shape as NetworkAPIService.NetworkStatus.  An exchange with *)
(* the node ends in one of the outcomes below.                             *)
(***************************************************************************)
TransportFailure(stage) == GoError("transport", stage)

\* What one HTTP exchange can produce: a failure before a body was read, or
\* a status code with a body that decodes (or not) to the type expected.
\* The fetcher takes the Transport at its contract: a typed response, a
\* domain Error or a failure.  What the generated code does when the HTTP
\* client hands back neither a response nor an error is studied on
\* NetworkStatus itself (TransportSpec).
HTTPOutcomes ==
    { [stage |-> "callAPI", status |-> 0, response |-> Nil, error |-> Nil] }
    \cup { [stage |-> "body", status |-> StatusOK, response |-> Some(r),
            error |-> Nil] : r \in Responses }
    \cup { [stage |-> "body", status |-> 500, response |-> Nil,
            error |-> Some(e)] : e \in DomainErrors }
    \cup { [stage |-> "body", status |-> s, response |-> Nil, error |-> Nil] :
            s \in {StatusOK, 500} }

\* The 3-way result (typed response, domain Error, Go error).
Triple(response, domainError, err) ==
    [response |-> response, domainError |-> domainError, err |-> err]

AccountAPIAccountBalance(h) ==
    IF h.stage # "body" THEN Triple(Nil, Nil, Some(TransportFailure(h.stage)))
    ELSE IF h.status # StatusOK
         THEN IF h.error = Nil
              THEN Triple(Nil, Nil, Some(TransportFailure("decode")))
              ELSE Triple(Nil, h.error, Some(FmtErrorf(h.error[1])))
         ELSE IF h.response = Nil
              THEN Triple(Nil, Nil, Some(TransportFailure("decode")))
              ELSE Triple(h.response, Nil, Nil)

(***************************************************************************)
(* fetcher/account.go                                                      *)
(***************************************************************************)
\* The (block, balances, error) a fetcher call returns.
Return(block, balances, err) ==
    [block |-> block, balances |-> balances, err |-> err]

\* The domain Error a fetcher call hands to its caller: the result list of
\* line 34 has no slot for one.
ReturnedDomainError(r) ==
    IF "domainError" \in DOMAIN r THEN r.domainError ELSE Nil

\* UnsafeAccountBalance, given the Transport's result t: the domain Error
\* (second result) is discarded, only the Go error is inspected.
UnsafeAccountBalance(t) ==
    IF t.err # Nil THEN Return(Nil, Nil, t.err)
    ELSE Return(Some(t.response[1].block_identifier),
                Some(t.response[1].balances), Nil)

\* Mutant: the asserter is never run.
AccountBalanceUnchecked(t) ==
    LET u == UnsafeAccountBalance(t)
    IN  IF u.err # Nil THEN Return(Nil, Nil, u.err)
        ELSE Return(u.block, u.balances, Nil)

\* Mutant: a rejected response is handed out next to the error.
AccountBalanceKeepsValue(t) ==
    LET u == UnsafeAccountBalance(t)
    IN  IF u.err # Nil THEN Return(Nil, Nil, u.err)
        ELSE Return(u.block, u.balances,
                    AssertAccountBalance(u.block[1], u.balances[1]))

\* AccountBalance, given the Transport's result t.
AccountBalance(t) ==
    LET u == UnsafeAccountBalance(t)
    IN  IF u.err # Nil THEN Return(Nil, Nil, u.err)
        ELSE LET v == AssertAccountBalance(u.block[1], u.balances[1])
             IN  IF v # Nil THEN Return(Nil, Nil, v)
                 ELSE Return(u.block, u.balances, Nil)

(***************************************************************************)
(* BackoffPolicy and the per-attempt decision step (backoffRetries and     *)
(* tryAgain of the fetcher package).                                       *)
(***************************************************************************)
\* backoffRetries(maxElapsedTime, maxRetries): a fresh policy, created at
\* tick `now`, that has handed out no interval yet.
backoffRetries(elapsedBound, retriesBound, now) ==
    [maxElapsedTime |-> elapsedBound, maxRetries |-> retriesBound,
     numTries |-> 0, start |-> now]

RECURSIVE Pow2(_)
Pow2(n) == IF n = 0 THEN 1 ELSE 2 * Pow2(n - 1)

\* NextBackOff: Nil (stop) as soon as either bound is reached, else the
\* next interval, which grows exponentially with the attempt number.
NextBackOff(b, now) ==
    IF b.numTries >= b.maxRetries \/ now - b.start >= b.maxElapsedTime
    THEN Nil
    ELSE Some(Pow2(b.numTries))

\* An error no further attempt can cure: a validation error, or a domain
\* Error whose retriable flag is not explicitly set.
Permanent(e) ==
    \/ e.kind = "asserter"
    \/ e.kind = "fmt.Errorf" /\ e.retriable # "true"

\* tryAgain(fetchMsg, backoff, err): whether another attempt is worthwhile.
\* Yields [again, wait, backoff]: the decision, the ticks slept before
\* returning (the interval plus the random jitter drawn for it), and the
\* policy afterwards.
tryAgain(b, e, now, jitter) ==
    LET next == NextBackOff(b, now)
    IN  IF Permanent(e) \/ next = Nil
        THEN [again |-> FALSE, wait |-> 0, backoff |-> b]
        ELSE [again |-> TRUE, wait |-> next[1] + jitter,
              backoff |-> [b EXCEPT !.numTries = @ + 1]]

(***************************************************************************)
(* State.                                                                  *)
(***************************************************************************)
VARIABLES
    op,              \* the call form invoked: "Unsafe", "Validated", "Retry"
    maxRetries,      \* argument of AccountBalanceRetry
    maxElapsedTime,  \* argument of AccountBalanceRetry, in ticks
    ctxErr,          \* ctx.Err() != nil: the context has been cancelled
    pc,              \* "call", "loop" (line 78), "tryAgain" (line 88), "done"
    log,             \* the Transport results so far, one per Transport call
    err,             \* err of the latest failed attempt of the retry loop
    backoff,         \* backoffRetries of the retry loop
    clock,           \* ticks since the call was entered
    waits,           \* number of backoff waits slept so far
    ret,             \* Nil, or Some(what the call returned)
    exit,            \* the line the call returned from: "", "return85",
                     \* "ctx78" (loop guard failed), "break89"
    net,             \* one NetworkStatus exchange of the client (TransportSpec)
    check,           \* one asserter check and its input (AsserterSpec)
    conc             \* concurrent AccountBalanceRetry calls (ConcSpec)

fetcherVars == << op, maxRetries, maxElapsedTime, ctxErr, pc, log, err,
                  backoff, clock, waits, ret, exit >>

\* The parts of the state a single fetcher call never touches.
others == << net, check, conc >>

vars == << fetcherVars, others >>

Ops == {"Unsafe", "Validated", "Retry"}

Init ==
    /\ op \in Ops
    /\ maxRetries \in 0..MaxRetriesBound
    /\ maxElapsedTime \in 0..MaxElapsedBound
    /\ op # "Retry" => maxRetries = 0 /\ maxElapsedTime = 0
    /\ ctxErr \in BOOLEAN
    /\ pc = IF op = "Retry" THEN "loop" ELSE "call"
    /\ log = << >>
    /\ err = Nil
    /\ backoff = backoffRetries(maxElapsedTime, maxRetries, 0)
    /\ clock = 0
    /\ waits = 0
    /\ ret = Nil
    /\ exit = ""
    /\ net = "idle" /\ check = "idle" /\ conc = "idle"

(***************************************************************************)
(* The single-shot call forms.                                             *)
(***************************************************************************)
CallUnsafeAccountBalance ==
    /\ op = "Unsafe" /\ pc = "call"
    /\ \E h \in HTTPOutcomes, d \in 0..MaxCallTime :
          LET t == AccountAPIAccountBalance(h)
          IN  /\ log' = Append(log, t)
              /\ clock' = clock + d
              /\ ret' = Some(UnsafeAccountBalance(t))
    /\ pc' = "done"
    /\ UNCHANGED << op, maxRetries, maxElapsedTime, ctxErr, err, backoff,
                    waits, exit >>
    /\ UNCHANGED others

CallAccountBalance ==
    /\ op = "Validated" /\ pc = "call"
    /\ \E h \in HTTPOutcomes, d \in 0..MaxCallTime :
          LET t == AccountAPIAccountBalance(h)
          IN  /\ log' = Append(log, t)
              /\ clock' = clock + d
              /\ ret' = Some(AccountBalance(t))
    /\ pc' = "done"
    /\ UNCHANGED << op, maxRetries, maxElapsedTime, ctxErr, err, backoff,
                    waits, exit >>
    /\ UNCHANGED others

(***************************************************************************)
(* AccountBalanceRetry.                                                    *)
(***************************************************************************)
\* Mutant: the loop never looks at the context.
LoopGuardIgnoresCtx(cancelled) == TRUE

\* line 78: for ctx.Err() == nil
LoopGuard(cancelled) == ~cancelled

\* line 84: if err == nil { return block, balances, nil }
AttemptReturns(r) == r.err = Nil

\* Mutant: the loop goes on whatever tryAgain answers.
BreaksNever(again) == FALSE

\* lines 88-90: if !tryAgain(...) { break }
Breaks(again) == ~again

\* line 93: return nil, nil, errors.New("exhausted retries for account")
RetryFailure == Return(Nil, Nil, Some(ExhaustedRetries))

\* One pass from the loop guard to the end of the attempt (lines 78-86).
\* Nothing blocks between reading ctx.Err() and issuing the Transport call,
\* so the guard and the call are one step; a cancellation that arrives
\* while the call is in flight is one that arrives right after this step.
RetryAttempt ==
    /\ op = "Retry" /\ pc = "loop"
    /\ IF ~LoopGuard(ctxErr)
       THEN /\ ret' = Some(RetryFailure)
            /\ exit' = "ctx78"
            /\ pc' = "done"
            /\ UNCHANGED << log, clock, err >>
       ELSE /\ Len(log) < MaxCalls
            /\ \E h \in HTTPOutcomes, d \in 0..MaxCallTime :
                  LET t == AccountAPIAccountBalance(h)
                      r == AccountBalance(t)
                  IN  /\ log' = Append(log, t)
                      /\ clock' = clock + d
                      /\ IF AttemptReturns(r)
                         THEN /\ ret' = Some(Return(r.block, r.balances, Nil))
                              /\ exit' = "return85"
                              /\ pc' = "done"
                              /\ err' = r.err
                         ELSE /\ err' = r.err
                              /\ pc' = "tryAgain"
                              /\ UNCHANGED << ret, exit >>
    /\ UNCHANGED << op, maxRetries, maxElapsedTime, ctxErr, backoff, waits >>
    /\ UNCHANGED others

\* The decision step after a failed attempt (lines 88-93).
RetryTryAgain ==
    /\ op = "Retry" /\ pc = "tryAgain"
    /\ \E jitter \in 0..MaxJitter :
       LET d == tryAgain(backoff, err[1], clock, jitter)
       IN  /\ backoff' = d.backoff
           /\ clock' = clock + d.wait
           /\ waits' = IF d.wait > 0 THEN waits + 1 ELSE waits
           /\ IF Breaks(d.again)
              THEN /\ ret' = Some(RetryFailure)
                   /\ exit' = "break89"
                   /\ pc' = "done"
              ELSE /\ pc' = "loop"
                   /\ UNCHANGED << ret, exit >>
    /\ UNCHANGED << op, maxRetries, maxElapsedTime, ctxErr, log, err >>
    /\ UNCHANGED others

\* The caller's context is cancelled, at any moment before the call returns.
Cancel ==
    /\ pc # "done"
    /\ ~ctxErr
    /\ ctxErr' = TRUE
    /\ UNCHANGED << op, maxRetries, maxElapsedTime, pc, log, err, backoff,
                    clock, waits, ret, exit >>
    /\ UNCHANGED others

Next ==
    \/ CallUnsafeAccountBalance
    \/ CallAccountBalance
    \/ RetryAttempt
    \/ RetryTryAgain
    \/ Cancel

Spec == Init /\ [][Next]_vars

\* The goroutine running the call keeps running and every Transport call
\* returns; nothing obliges the caller to cancel.
FairSpec == Spec /\ WF_vars(RetryAttempt) /\ WF_vars(RetryTryAgain)

(***************************************************************************)
(* Helpers of the properties.                                              *)
(***************************************************************************)
Returned == pc = "done"

\* The Transport result t is a response the asserter accepts / rejects.
AttemptSucceeded(t) ==
    /\ t.err = Nil
    /\ AssertAccountBalance(t.response[1].block_identifier,
                            t.response[1].balances) = Nil

ValidationFailed(t) ==
    /\ t.err = Nil
    /\ AssertAccountBalance(t.response[1].block_identifier,
                            t.response[1].balances) # Nil

\* The node answered with a domain Error whose retriable flag is not set.
PermanentDomainError(t) ==
    /\ t.domainError # Nil
    /\ t.domainError[1].retriable # "true"

(***************************************************************************)
(* C1: in AccountBalanceRetry no Transport call is started once the        *)
(* context is cancelled (and a cancelled context stays cancelled): a call  *)
(* entered with a cancelled context makes zero Transport calls, a call     *)
(* cancelled between attempts makes no attempt after the cancellation.     *)
(***************************************************************************)
C1_NoCallAfterCancel ==
    [][ (op = "Retry" /\ ctxErr) => (ctxErr' /\ log' = log) ]_vars

\* A retry call cancelled after an attempt has returned through the guard.
C1_Witness ==
    /\ op = "Retry" /\ Returned /\ exit = "ctx78"
    /\ ctxErr /\ Len(log) >= 1

(***************************************************************************)
(* C2: when AccountBalanceRetry ends because cancellation was observed,    *)
(* the error returned differs from the one returned when the retry budget  *)
(* is consumed.                                                            *)
(***************************************************************************)
C2_CancelledDistinct ==
    (op = "Retry" /\ Returned /\ exit = "ctx78")
        => ret[1].err # Some(ExhaustedRetries)

(***************************************************************************)
(* C3: an attempt that fails validation is the last attempt of the retry   *)
(* loop, and the call returns that validation error unchanged.             *)
(***************************************************************************)
C3_ValidationSurfaced ==
    op = "Retry" =>
        \A i \in 1..Len(log) :
            ValidationFailed(log[i]) =>
                /\ i = Len(log)
                /\ Returned => ret[1].err = AccountBalance(log[i]).err

(***************************************************************************)
(* C4: a domain Error whose retriable flag is false or absent ends the     *)
(* retry loop (no attempt follows it) and is the error the call returns.   *)
(***************************************************************************)
C4_PermanentDomainError ==
    op = "Retry" =>
        \A i \in 1..Len(log) :
            PermanentDomainError(log[i]) =>
                /\ i = Len(log)
                /\ Returned => ret[1].err = log[i].err

(***************************************************************************)
(* C5: AccountBalanceRetry with maxRetries = 0 never waits and never makes *)
(* a second attempt; with an uncancelled context it makes exactly one      *)
(* attempt, and a failed attempt yields the exhausted-retries error (or    *)
(* the attempt's own error when that one is permanent).                    *)
(***************************************************************************)
C5_ZeroRetries ==
    (op = "Retry" /\ maxRetries = 0) =>
        /\ Len(log) <= 1
        /\ waits = 0
        /\ (Returned /\ ~ctxErr) => Len(log) = 1
        /\ (Returned /\ Len(log) = 1 /\ ~AttemptSucceeded(log[1])) =>
              \/ ret[1].err = Some(ExhaustedRetries)
              \/ Permanent(err[1]) /\ ret[1].err = err

\* One retriable failure, no cancellation, budget of zero retries.
C5_Witness ==
    /\ op = "Retry" /\ maxRetries = 0 /\ maxElapsedTime > 0
    /\ Returned /\ ~ctxErr /\ exit = "break89"
    /\ Len(log) = 1 /\ ~Permanent(err[1])

(***************************************************************************)
(* C6: every AccountBalanceRetry call returns, after at most               *)
(* maxRetries + 1 attempts; an attempt is repeated only while both bounds  *)
(* of the policy leave room, and a call that gave up on a retriable error  *)
(* had reached the attempt bound or the elapsed-time bound.                *)
(***************************************************************************)
C6_Terminates ==
    /\ [](op = "Retry" => Len(log) <= maxRetries + 1)
    /\ [](op = "Retry" => Len(log) <= backoff.numTries + 1)
    /\ []((op = "Retry" /\ Returned /\ exit = "break89" /\ ~Permanent(err[1]))
            => \/ backoff.numTries >= maxRetries
               \/ clock >= maxElapsedTime)
    /\ (op = "Retry" => <>(Returned /\ exit \in {"return85", "ctx78", "break89"}))

\* A call that used its whole attempt budget on retriable failures.
C6_Witness ==
    /\ op = "Retry" /\ Returned /\ exit = "break89"
    /\ maxRetries = MaxRetriesBound /\ Len(log) = maxRetries + 1
    /\ ~Permanent(err[1])

(***************************************************************************)
(* C7: the failure returned when the retry budget is exhausted is not the  *)
(* last attempt's error itself and wraps that error as its cause.          *)
(***************************************************************************)
C7_ExhaustedWrapsLast ==
    (op = "Retry" /\ Returned /\ exit = "break89" /\ ~Permanent(err[1])) =>
        /\ ret[1].err # err
        /\ Unwrap(ret[1].err[1]) = err

(***************************************************************************)
(* C8: AccountBalanceRetry returns without error exactly when some attempt *)
(* succeeded; that attempt is the first success and the last Transport     *)
(* call, its block and balances are the ones returned, and they pass the   *)
(* asserter.                                                               *)
(***************************************************************************)
C8_SuccessIffAttemptSucceeded ==
    op = "Retry" =>
        /\ \A i \in 1..Len(log) : AttemptSucceeded(log[i]) => i = Len(log)
        /\ Returned =>
              /\ ret[1].err = Nil <=>
                    \E i \in 1..Len(log) : AttemptSucceeded(log[i])
              /\ ret[1].err = Nil =>
                    LET t == log[Len(log)]
                    IN  /\ AttemptSucceeded(t)
                        /\ ret[1].block = Some(t.response[1].block_identifier)
                        /\ ret[1].balances = Some(t.response[1].balances)
              /\ ret[1].err # Nil =>
                    ret[1].block = Nil /\ ret[1].balances = Nil

\* Success on a later attempt, after at least one failure.
C8_Witness ==
    /\ op = "Retry" /\ Returned /\ exit = "return85"
    /\ Len(log) >= 2 /\ ret[1].err = Nil /\ ret[1].block # Nil

(***************************************************************************)
(* C9: AccountBalance makes exactly one Transport call and returns either  *)
(* a checked value or a single error: the block and balances of the        *)
(* Transport's response, without error, only when the asserter accepts     *)
(* them; otherwise the Transport's error or the asserter's error, with     *)
(* block and balances absent.                                              *)
(***************************************************************************)
C9_ValueOrError ==
    (op = "Validated" /\ Returned) =>
        LET t == log[1]
            r == ret[1]
        IN  /\ Len(log) = 1
            /\ r.err = Nil =>
                  /\ AttemptSucceeded(t)
                  /\ r.block = Some(t.response[1].block_identifier)
                  /\ r.balances = Some(t.response[1].balances)
            /\ r.err # Nil => r.block = Nil /\ r.balances = Nil
            /\ t.err # Nil => r.err = t.err
            /\ ValidationFailed(t) =>
                  r.err = AssertAccountBalance(t.response[1].block_identifier,
                                               t.response[1].balances)
            /\ AttemptSucceeded(t) => r.err = Nil

\* A response the asserter rejected came back as an error alone.
C9_Witness ==
    /\ op = "Validated" /\ Returned
    /\ ValidationFailed(log[1])
    /\ ret[1].err # Nil /\ ret[1].block = Nil

(***************************************************************************)
(* C10: UnsafeAccountBalance makes exactly one Transport call and hands    *)
(* the Transport's response fields, domain Error and error to its caller   *)
(* as they are.                                                            *)
(***************************************************************************)
C10_UnsafeVerbatim ==
    (op = "Unsafe" /\ Returned) =>
        LET t == log[1]
            r == ret[1]
        IN  /\ Len(log) = 1
            /\ r.err = t.err
            /\ t.response # Nil =>
                  /\ r.block = Some(t.response[1].block_identifier)
                  /\ r.balances = Some(t.response[1].balances)
            /\ ReturnedDomainError(r) = t.domainError

(***************************************************************************)
(* client/api_network.go: NetworkAPIService.NetworkStatus.                 *)
(*                                                                         *)
(* One exchange x with the node is described by what each step of the      *)
(* operation meets: prepareRequest failing, callAPI handing back an error  *)
(* and/or a response, ReadAll failing, the status code, the Content-Type   *)
(* and the body.  Fields a step never reads are left at a fixed value.     *)
(***************************************************************************)
NetworkStatusResponses ==
    { [current_block_identifier |-> ValidBlock],
      [current_block_identifier |-> NextBlock] }

\* The zero values json.Unmarshal leaves when the body is a JSON object of
\* another shape.
ZeroError == [code |-> 0, message |-> "", retriable |-> "absent"]
ZeroNetworkStatusResponse ==
    [current_block_identifier |-> [index |-> 0, hash |-> ""]]

Body(kind, error, response) ==
    [kind |-> kind, error |-> error, response |-> response]

Bodies ==
    { Body("garbage", Nil, Nil) }
    \cup { Body("error", Some(e), Nil) : e \in DomainErrors }
    \cup { Body("response", Nil, Some(r)) : r \in NetworkStatusResponses }

Exchange(prepareErr, callErr, response, readErr, status, contentType, body) ==
    [prepareErr |-> prepareErr, callErr |-> callErr, response |-> response,
     readErr |-> readErr, status |-> status, contentType |-> contentType,
     body |-> body]

NoBody == Body("garbage", Nil, Nil)

Exchanges ==
    { Exchange(TRUE, FALSE, FALSE, FALSE, 0, "", NoBody) }
    \cup { Exchange(FALSE, TRUE, r, FALSE, 0, "", NoBody) : r \in BOOLEAN }
    \cup { Exchange(FALSE, FALSE, FALSE, FALSE, 0, "", NoBody) }
    \cup { Exchange(FALSE, FALSE, TRUE, TRUE, 0, "", NoBody) }
    \cup { Exchange(FALSE, FALSE, TRUE, FALSE, s, ct, b) :
             s \in {StatusOK, 404, 500},
             ct \in {"application/json", "text/html"},
             b \in Bodies }

\* a.client.decode(&v, body, contentType) for v of type types.Error and
\* types.NetworkStatusResponse: Nil when decoding fails, else Some(v).
DecodeError(body, contentType) ==
    IF contentType # "application/json" \/ body.kind = "garbage" THEN Nil
    ELSE IF body.kind = "error" THEN body.error
    ELSE Some(ZeroError)

DecodeNetworkStatusResponse(body, contentType) ==
    IF contentType # "application/json" \/ body.kind = "garbage" THEN Nil
    ELSE IF body.kind = "response" THEN body.response
    ELSE Some(ZeroNetworkStatusResponse)

\* Mutant: the status code is not looked at.
NetworkStatusIgnoresStatus(x) ==
    IF x.prepareErr THEN Triple(Nil, Nil, Some(TransportFailure("prepareRequest")))
    ELSE IF x.callErr THEN Triple(Nil, Nil, Some(TransportFailure("callAPI")))
    ELSE IF ~x.response THEN Triple(Nil, Nil, Nil)
    ELSE IF x.readErr THEN Triple(Nil, Nil, Some(TransportFailure("ReadAll")))
    ELSE LET v == DecodeNetworkStatusResponse(x.body, x.contentType)
         IN  IF v = Nil
             THEN Triple(Nil, Nil, Some(TransportFailure("decode")))
             ELSE Triple(v, Nil, Nil)

\* Mutant: the domain Error comes back without the Go error.
NetworkStatusErrorWithoutErr(x) ==
    IF x.prepareErr THEN Triple(Nil, Nil, Some(TransportFailure("prepareRequest")))
    ELSE IF x.callErr THEN Triple(Nil, Nil, Some(TransportFailure("callAPI")))
    ELSE IF ~x.response THEN Triple(Nil, Nil, Nil)
    ELSE IF x.readErr THEN Triple(Nil, Nil, Some(TransportFailure("ReadAll")))
    ELSE IF x.status # StatusOK
         THEN LET v == DecodeError(x.body, x.contentType)
              IN  IF v = Nil
                  THEN Triple(Nil, Nil, Some(TransportFailure("decode")))
                  ELSE Triple(Nil, v, Nil)
         ELSE LET v == DecodeNetworkStatusResponse(x.body, x.contentType)
              IN  IF v = Nil
                  THEN Triple(Nil, Nil, Some(TransportFailure("decode")))
                  ELSE Triple(v, Nil, Nil)

\* NetworkStatus (lines 70-102) on the exchange x.
NetworkStatus(x) ==
    IF x.prepareErr                                            \* lines 70-73
    THEN Triple(Nil, Nil, Some(TransportFailure("prepareRequest")))
    ELSE IF x.callErr                                          \* lines 75-78
    THEN Triple(Nil, Nil, Some(TransportFailure("callAPI")))
    ELSE IF ~x.response                                        \* line 76-77
    THEN Triple(Nil, Nil, Nil)
    ELSE IF x.readErr                                          \* lines 80-84
    THEN Triple(Nil, Nil, Some(TransportFailure("ReadAll")))
    ELSE IF x.status # StatusOK                                \* lines 86-94
         THEN LET v == DecodeError(x.body, x.contentType)
              IN  IF v = Nil
                  THEN Triple(Nil, Nil, Some(TransportFailure("decode")))
                  ELSE Triple(Nil, v, Some(FmtErrorf(v[1])))
         ELSE LET v == DecodeNetworkStatusResponse(x.body, x.contentType)
              IN  IF v = Nil                                   \* lines 96-102
                  THEN Triple(Nil, Nil, Some(TransportFailure("decode")))
                  ELSE Triple(v, Nil, Nil)

\* A caller that, like UnsafeAccountBalance (lines 35-45), drops the domain
\* Error, tests the Go error alone and then reads through the response.
ErrOnlyCaller(t) ==
    IF t.err # Nil THEN "failed"
    ELSE IF t.response = Nil THEN "nil dereference"
    ELSE "value"

\* The requests the exchange is made for.
NetworkRequests ==
    { [blockchain |-> "bitcoin", network |-> n] : n \in {"mainnet", "testnet"} }

NetInit ==
    /\ net \in { [pc |-> "start", request |-> q, x |-> Nil, result |-> Nil,
                  caller |-> ""] : q \in NetworkRequests }
    /\ check = "idle" /\ conc = "idle"
    /\ op = "" /\ maxRetries = 0 /\ maxElapsedTime = 0 /\ ctxErr = FALSE
    /\ pc = "idle" /\ log = << >> /\ err = Nil
    /\ backoff = backoffRetries(0, 0, 0)
    /\ clock = 0 /\ waits = 0 /\ ret = Nil /\ exit = ""

\* The whole of NetworkStatus on one exchange.
NetworkStatusCall ==
    /\ net.pc = "start"
    /\ \E x \in Exchanges :
          net' = [net EXCEPT !.pc = "returned", !.x = Some(x),
                             !.result = Some(NetworkStatus(x))]
    /\ UNCHANGED << fetcherVars, check, conc >>

\* The caller acts on the result.
NetworkStatusCaller ==
    /\ net.pc = "returned"
    /\ net' = [net EXCEPT !.pc = "done",
                          !.caller = ErrOnlyCaller(net.result[1])]
    /\ UNCHANGED << fetcherVars, check, conc >>

NetNext == NetworkStatusCall \/ NetworkStatusCaller

TransportSpec == NetInit /\ [][NetNext]_vars

NetReturned == net.pc \in {"returned", "done"}

\* The exchange got as far as the status code: a body was read.
BodyRead(x) == ~x.prepareErr /\ ~x.callErr /\ x.response /\ ~x.readErr

(***************************************************************************)
(* C11: in NetworkStatus a response with a non-200 status never yields a   *)
(* typed response: its body is decoded as a domain Error, returned with    *)
(* the typed response absent, or, if decoding fails, a transport error     *)
(* alone is returned; a typed response is returned only for status 200     *)
(* with a decoded body, and then both error results are absent.            *)
(***************************************************************************)
C11_StatusDecides ==
    NetReturned =>
        LET x == net.x[1]
            t == net.result[1]
        IN  /\ (BodyRead(x) /\ x.status # StatusOK) =>
                  /\ t.response = Nil
                  /\ t.err # Nil
                  /\ t.domainError = DecodeError(x.body, x.contentType)
            /\ t.response # Nil =>
                  /\ BodyRead(x) /\ x.status = StatusOK
                  /\ t.response = DecodeNetworkStatusResponse(x.body, x.contentType)
                  /\ t.domainError = Nil /\ t.err = Nil

\* A 500 reply whose body decoded to the node's Error.
C11_Witness ==
    /\ NetReturned
    /\ BodyRead(net.x[1]) /\ net.x[1].status = 500
    /\ net.x[1].body.kind = "error"
    /\ net.result[1].domainError = net.x[1].body.error
    /\ net.result[1].response = Nil

(***************************************************************************)
(* C19: a Transport operation never returns the all-absent triple: when    *)
(* the Go error is absent the typed response is present, so a caller that  *)
(* tests the error alone never reads through an absent response, whatever  *)
(* the HTTP call yields.                                                   *)
(***************************************************************************)
C19_NeverAllAbsent ==
    NetReturned =>
        /\ net.result[1].err = Nil => net.result[1].response # Nil
        /\ net.pc = "done" => net.caller # "nil dereference"

(***************************************************************************)
(* C20: whenever NetworkStatus returns a domain Error, the Go error is     *)
(* present too and the typed response is absent, so a caller that tests    *)
(* the Go error alone treats the reply as a failure.                       *)
(***************************************************************************)
C20_DomainErrorHasErr ==
    (NetReturned /\ net.result[1].domainError # Nil) =>
        /\ net.result[1].err # Nil
        /\ net.result[1].err = Some(FmtErrorf(net.result[1].domainError[1]))
        /\ net.result[1].response = Nil
        /\ net.pc = "done" => net.caller = "failed"

\* The caller has turned a domain-error reply into a failure.
C20_Witness ==
    /\ net.pc = "done"
    /\ net.result[1].domainError # Nil
    /\ net.caller = "failed"

(***************************************************************************)
(* asserter/network.go: the checks exercised by asserter/network_test.go.  *)
(* A pointer argument is Nil or Some(value).                               *)
(***************************************************************************)
SeqsUpTo(S, n) == UNION { [1..k -> S] : k \in 0..n }

\* asserter.SubNetworkIdentifier: an absent sub-network is fine.
SubNetworkIdentifier(sub) ==
    IF sub = Nil THEN Nil
    ELSE IF sub[1].network = ""
         THEN Some(AssertError(
                  "NetworkIdentifier.SubNetworkIdentifier.Network is missing"))
         ELSE Nil

\* asserter.NetworkIdentifier.  TestNetworkIdentifier ("invalid blockchain",
\* lines 41-47) expects "NetworkIdentifier is nil" for an empty blockchain.
NetworkIdentifier(network) ==
    IF network = Nil \/ network[1].blockchain = ""
    THEN Some(AssertError("NetworkIdentifier is nil"))
    ELSE IF network[1].network = ""
    THEN Some(AssertError("NetworkIdentifier.Network is missing"))
    ELSE SubNetworkIdentifier(network[1].sub_network_identifier)

\* Mutant: an empty middleware version counts as an absent one.
VersionLenient(version) ==
    IF version = Nil THEN Some(AssertError("version is nil"))
    ELSE IF version[1].node_version = ""
    THEN Some(AssertError("Version.NodeVersion is missing"))
    ELSE Nil

\* asserter.Version
Version(version) ==
    IF version = Nil THEN Some(AssertError("version is nil"))
    ELSE IF version[1].node_version = ""
    THEN Some(AssertError("Version.NodeVersion is missing"))
    ELSE IF /\ version[1].middleware_version # Nil
            /\ version[1].middleware_version[1] = ""
    THEN Some(AssertError("Version.MiddlewareVersion is missing"))
    ELSE Nil

\* Whether the scan of the statuses meets a successful one.
RECURSIVE FoundSuccessful(_)
FoundSuccessful(statuses) ==
    IF statuses = << >> THEN FALSE
    ELSE IF Head(statuses).successful THEN TRUE
         ELSE FoundSuccessful(Tail(statuses))

\* asserter.OperationStatuses
OperationStatuses(statuses) ==
    IF Len(statuses) = 0
    THEN Some(AssertError("no Options.OperationStatuses found"))
    ELSE IF ~FoundSuccessful(statuses)
    THEN Some(AssertError("no successful Options.OperationStatuses found"))
    ELSE Nil

\* asserter.OperationTypes
OperationTypes(types) ==
    IF Len(types) = 0
    THEN Some(AssertError("no Options.OperationTypes found"))
    ELSE Nil

\* Mutant: the operation types are checked before the statuses.
NetworkOptionsTypesFirst(options) ==
    IF options = Nil THEN Some(AssertError("options is nil"))
    ELSE LET t == OperationTypes(options[1].operation_types)
         IN  IF t # Nil THEN t
             ELSE OperationStatuses(options[1].operation_statuses)

\* asserter.NetworkOptions
NetworkOptions(options) ==
    IF options = Nil THEN Some(AssertError("options is nil"))
    ELSE LET st == OperationStatuses(options[1].operation_statuses)
         IN  IF st # Nil THEN st
             ELSE OperationTypes(options[1].operation_types)

\* The scan of asserter.Errors: the position of the first entry whose code
\* an earlier entry carries, 0 when there is none.
RECURSIVE ErrorsScan(_, _, _)
ErrorsScan(rosettaErrors, i, codes) ==
    IF i > Len(rosettaErrors) THEN 0
    ELSE IF rosettaErrors[i].code \in codes THEN i
         ELSE ErrorsScan(rosettaErrors, i + 1,
                         codes \cup {rosettaErrors[i].code})

\* Mutant: only neighbouring entries are compared.
ErrorsNeighbours(rosettaErrors) ==
    IF \E i \in 1..(Len(rosettaErrors) - 1) :
          rosettaErrors[i].code = rosettaErrors[i + 1].code
    THEN Some(AssertError("error code used multiple times"))
    ELSE Nil

\* asserter.Errors
Errors(rosettaErrors) ==
    IF ErrorsScan(rosettaErrors, 1, {}) # 0
    THEN Some(AssertError("error code used multiple times"))
    ELSE Nil

(***************************************************************************)
(* The inputs the checks are run on.                                       *)
(***************************************************************************)
NetworkIdentifierInputs ==
    { Nil } \cup
    { Some([blockchain |-> b, network |-> n, sub_network_identifier |-> sn]) :
        b \in {"", "bitcoin"}, n \in {"", "mainnet"},
        sn \in {Nil, Some([network |-> ""]), Some([network |-> "shard 1"])} }

VersionInputs ==
    { Nil } \cup
    { Some([rosetta_version |-> r, node_version |-> n,
            middleware_version |-> m]) :
        r \in {"1.2.4", "1.2.2", ""}, n \in {"", "1.0"},
        m \in {Nil, Some(""), Some("1.2")} }

OperationStatusValues ==
    { [status |-> "SUCCESS", successful |-> TRUE],
      [status |-> "FAILURE", successful |-> FALSE] }

OptionsInputs ==
    { Nil } \cup
    { Some([operation_statuses |-> st, operation_types |-> ty]) :
        st \in SeqsUpTo(OperationStatusValues, MaxListLen),
        ty \in SeqsUpTo({"PAYMENT"}, MaxListLen) }

\* Catalog entries: valid Errors, as in TestErrors.
ErrorValues ==
    { [code |-> c, message |-> m] :
        c \in 0..MaxCode, m \in {"error 1", "error 2"} }

ErrorsInputs == SeqsUpTo(ErrorValues, MaxListLen + 1)

\* Metadata: a map from string keys to values, held as a set of entries
\* with distinct keys; the pointer to it is Nil or Some(map).
MetadataValues ==
    { Nil,
      Some({[key |-> "blah", value |-> "hello"]}),
      Some({[key |-> "blah", value |-> "bye"]}),
      Some({[key |-> "other", value |-> "hello"]}) }

CurrencyValues ==
    { [symbol |-> sy, decimals |-> d, metadata |-> m] :
        sy \in {"BTC", "ERX"}, d \in {8, 9}, m \in MetadataValues }

ContainsCurrencyInputs ==
    { [list |-> l, item |-> c] :
        l \in SeqsUpTo(CurrencyValues, MaxListLen), c \in CurrencyValues }

SubAccountValues ==
    { Nil } \cup
    { Some([address |-> a, metadata |-> m]) :
        a \in {"subacct1", "subacct2"},
        m \in MetadataValues }

AccountValues ==
    { [address |-> a, sub_account |-> sa] :
        a \in {"acct1", "acct2"}, sa \in SubAccountValues }

ContainsAccountInputs ==
    { [list |-> l, item |-> a] :
        l \in SeqsUpTo(AccountValues, MaxListLen), a \in AccountValues }

BlockValues ==
    { ValidBlock, InvalidBlock,
      [index |-> -1, hash |-> "jsakdl"], [index |-> -1, hash |-> ""] }

BalanceValues ==
    { Bal(a, am) :
        a \in {"acct1", "acct2", ""},
        am \in { << Amt("100", BTC) >>,
                 << Amt("100", BTC), Amt("7", ETH) >>,
                 << Amt("100", BTC), Amt("7", BTC) >> } }

AccountBalanceInputs ==
    { [block |-> b, balances |-> bs] :
        b \in BlockValues, bs \in SeqsUpTo(BalanceValues, MaxListLen) }

(***************************************************************************)
(* AsserterSpec: one check is picked with its input and then run.          *)
(***************************************************************************)
CheckOf(fn, inputs) ==
    { [fn |-> fn, pc |-> "start", input |-> i, result |-> Nil] : i \in inputs }

AsserterInit ==
    /\ check \in CheckOf("NetworkIdentifier", NetworkIdentifierInputs)
            \cup CheckOf("Version", VersionInputs)
            \cup CheckOf("NetworkOptions", OptionsInputs)
            \cup CheckOf("Errors", ErrorsInputs)
            \cup CheckOf("AccountBalance", AccountBalanceInputs)
            \cup CheckOf("containsCurrency", ContainsCurrencyInputs)
            \cup CheckOf("containsAccountIdentifier", ContainsAccountInputs)
    /\ net = "idle" /\ conc = "idle"
    /\ op = "" /\ maxRetries = 0 /\ maxElapsedTime = 0 /\ ctxErr = FALSE
    /\ pc = "idle" /\ log = << >> /\ err = Nil
    /\ backoff = backoffRetries(0, 0, 0)
    /\ clock = 0 /\ waits = 0 /\ ret = Nil /\ exit = ""

\* The check named fn returns r.
Ran(fn, r) ==
    /\ check.pc = "start" /\ check.fn = fn
    /\ check' = [check EXCEPT !.pc = "done", !.result = r]
    /\ UNCHANGED << fetcherVars, net, conc >>

RunNetworkIdentifier ==
    /\ check.fn = "NetworkIdentifier"
    /\ Ran("NetworkIdentifier", NetworkIdentifier(check.input))

RunVersion ==
    /\ check.fn = "Version"
    /\ Ran("Version", Version(check.input))

RunNetworkOptions ==
    /\ check.fn = "NetworkOptions"
    /\ Ran("NetworkOptions", NetworkOptions(check.input))

RunErrors ==
    /\ check.fn = "Errors"
    /\ Ran("Errors", Errors(check.input))

RunAccountBalance ==
    /\ check.fn = "AccountBalance"
    /\ Ran("AccountBalance",
           AssertAccountBalance(check.input.block, check.input.balances))

RunContainsCurrency ==
    /\ check.fn = "containsCurrency"
    /\ Ran("containsCurrency",
           containsCurrency(check.input.list, check.input.item))

RunContainsAccountIdentifier ==
    /\ check.fn = "containsAccountIdentifier"
    /\ Ran("containsAccountIdentifier",
           containsAccountIdentifier(check.input.list, check.input.item))

AsserterNext ==
    \/ RunNetworkIdentifier
    \/ RunVersion
    \/ RunNetworkOptions
    \/ RunErrors
    \/ RunAccountBalance
    \/ RunContainsCurrency
    \/ RunContainsAccountIdentifier

AsserterSpec == AsserterInit /\ [][AsserterNext]_vars

Checked(fn) == check.fn = fn /\ check.pc = "done"

(***************************************************************************)
(* Properties of the asserter checks.                                      *)
(***************************************************************************)
Earlier(n) == { p \in (1..n) \X (1..n) : p[1] < p[2] }

\* Two amounts of one balance entry name the same currency.
SharesCurrency(entry) ==
    \E p \in Earlier(Len(entry.amounts)) :
        entry.amounts[p[1]].currency = entry.amounts[p[2]].currency

\* One balance entry breaks a rule of its own.
EntryViolates(entry) ==
    entry.account_identifier.address = "" \/ SharesCurrency(entry)

\* Two balance entries name the same account.
SharesAccount(balances) ==
    \E p \in Earlier(Len(balances)) :
        balances[p[1]].account_identifier = balances[p[2]].account_identifier

\* What the stated order makes of an input: the block; then the entries in
\* sequence, each one's account before its currency set; then the accounts
\* across the entries.
AccountBalanceExpected(block, balances) ==
    IF block.index < 0
    THEN Some(AssertError("BlockIdentifier.Index is negative"))
    ELSE IF block.hash = ""
    THEN Some(AssertError("BlockIdentifier.Hash is missing"))
    ELSE IF \E i \in 1..Len(balances) : EntryViolates(balances[i])
    THEN LET i == CHOOSE k \in 1..Len(balances) :
                     /\ EntryViolates(balances[k])
                     /\ \A j \in 1..(k - 1) : ~EntryViolates(balances[j])
         IN  IF balances[i].account_identifier.address = ""
             THEN Some(AssertError("Account.Address is missing"))
             ELSE Some(AssertError("currency used in balance multiple times"))
    ELSE IF SharesAccount(balances)
    THEN Some(AssertError("account identifier used in balance multiple times"))
    ELSE Nil

C13_PriorityOrder ==
    Checked("NetworkOptions") =>
        check.result =
            IF check.input = Nil
            THEN Some(AssertError("options is nil"))
            ELSE LET st == check.input[1].operation_statuses
                     ty == check.input[1].operation_types
                 IN  IF Len(st) = 0
                     THEN Some(AssertError("no Options.OperationStatuses found"))
                     ELSE IF \A i \in 1..Len(st) : ~st[i].successful
                     THEN Some(AssertError(
                              "no successful Options.OperationStatuses found"))
                     ELSE IF Len(ty) = 0
                     THEN Some(AssertError("no Options.OperationTypes found"))
                     ELSE Nil

\* No successful status and no operation type: the status error wins.
C13_Witness ==
    /\ Checked("NetworkOptions")
    /\ check.input # Nil
    /\ Len(check.input[1].operation_statuses) > 0
    /\ \A i \in 1..Len(check.input[1].operation_statuses) :
           ~check.input[1].operation_statuses[i].successful
    /\ Len(check.input[1].operation_types) = 0
    /\ check.result =
           Some(AssertError("no successful Options.OperationStatuses found"))

\* C14: a present NetworkIdentifier with an empty blockchain fails with the
\* error that names the blockchain field, not with the nil-identifier error.
C14_BlockchainNamed ==
    ( /\ Checked("NetworkIdentifier")
      /\ check.input # Nil
      /\ check.input[1].blockchain = "" ) =>
        /\ check.result # Some(AssertError("NetworkIdentifier is nil"))
        /\ check.result =
               Some(AssertError("NetworkIdentifier.Blockchain is missing"))

\* C15: for a present Version, an empty node version fails; otherwise a
\* present-but-empty middleware version fails; everything else passes, an
\* absent or non-empty middleware version and any rosetta version included.
C15_MiddlewareVersion ==
    ( Checked("Version") /\ check.input # Nil ) =>
        check.result =
            IF check.input[1].node_version = ""
            THEN Some(AssertError("Version.NodeVersion is missing"))
            ELSE IF check.input[1].middleware_version = Some("")
            THEN Some(AssertError("Version.MiddlewareVersion is missing"))
            ELSE Nil

\* A node version and a present, empty middleware version.
C15_Witness ==
    /\ Checked("Version")
    /\ check.input # Nil
    /\ check.input[1].node_version # ""
    /\ check.input[1].middleware_version = Some("")
    /\ check.result = Some(AssertError("Version.MiddlewareVersion is missing"))

\* An entry whose code an earlier entry of the sequence carries.
Repeats(rosettaErrors, j) ==
    \E i \in 1..(j - 1) : rosettaErrors[i].code = rosettaErrors[j].code

\* C16: Errors passes iff the codes of the sequence are pairwise distinct and
\* fails with the duplicate-code error otherwise; the scan stops at the first
\* entry, in input order, that repeats an earlier code.
C16_DistinctCodes ==
    Checked("Errors") =>
        LET es == check.input
            scan == ErrorsScan(es, 1, {})
        IN  /\ check.result = Nil <=>
                   \A p \in Earlier(Len(es)) : es[p[1]].code # es[p[2]].code
            /\ check.result # Nil =>
                   /\ check.result =
                          Some(AssertError("error code used multiple times"))
                   /\ Repeats(es, scan)
                   /\ \A j \in 1..(scan - 1) : ~Repeats(es, j)
            /\ check.result = Nil => scan = 0

\* The first and the last of three entries share a code; the middle differs.
C16_Witness ==
    /\ Checked("Errors")
    /\ Len(check.input) = 3
    /\ check.input[1].code = check.input[3].code
    /\ check.input[1].code # check.input[2].code
    /\ check.result = Some(AssertError("error code used multiple times"))

\* The entries of an optional metadata map.
Entries(metadata) == IF metadata = Nil THEN {} ELSE metadata[1]

Keys(metadata) == { e.key : e \in Entries(metadata) }

ValueAt(metadata, k) == (CHOOSE e \in Entries(metadata) : e.key = k).value

\* Same key set, equal value per key.
SameMetadata(m1, m2) ==
    /\ Keys(m1) = Keys(m2)
    /\ \A k \in Keys(m1) : ValueAt(m1, k) = ValueAt(m2, k)

SameCurrency(c1, c2) ==
    /\ c1.symbol = c2.symbol
    /\ c1.decimals = c2.decimals
    /\ SameMetadata(c1.metadata, c2.metadata)

SameSubAccount(s1, s2) ==
    IF s1 = Nil \/ s2 = Nil THEN s1 = Nil /\ s2 = Nil
    ELSE /\ s1[1].address = s2[1].address
         /\ SameMetadata(s1[1].metadata, s2[1].metadata)

SameAccount(a1, a2) ==
    /\ a1.address = a2.address
    /\ SameSubAccount(a1.sub_account, a2.sub_account)

Callers == {"a", "b"}

\* Mutant: every call uses the policy of one slot.
BackoffShared(c) == "a"

\* line 76: backoffRetries is a local variable of the call.
BackoffOf(c) == c

\* What an attempt can meet: a failed exchange, a response the asserter
\* accepts, a response it rejects.
ConcOutcomes ==
    { h \in HTTPOutcomes :
        \/ h.stage = "callAPI"
        \/ /\ h.response # Nil
           /\ h.response[1].block_identifier \in {ValidBlock, InvalidBlock}
           /\ Len(h.response[1].balances) = 1
           /\ Len(h.response[1].balances[1].amounts) = 1 }

\* A call that has not been entered yet.
ConcCall(retries, elapsed) ==
    [maxRetries |-> retries, maxElapsedTime |-> elapsed, ctxErr |-> FALSE,
     pc |-> "entry", calls |-> 0, retried |-> 0, entered |-> 0,
     err |-> Nil, exit |-> ""]

ConcInit ==
    /\ conc \in
         { [now |-> 0, rosettaClient |-> "client", callers |-> cs,
            policies |-> [c \in Callers |-> backoffRetries(0, 0, 0)]] :
             cs \in [Callers -> { ConcCall(r, e) :
                                     r \in 0..MaxRetriesBound,
                                     e \in {0, MaxElapsedBound} }] }
    /\ net = "idle" /\ check = "idle"
    /\ op = "" /\ maxRetries = 0 /\ maxElapsedTime = 0 /\ ctxErr = FALSE
    /\ pc = "idle" /\ log = << >> /\ err = Nil
    /\ backoff = backoffRetries(0, 0, 0)
    /\ clock = 0 /\ waits = 0 /\ ret = Nil /\ exit = ""

ConcFrame == UNCHANGED << fetcherVars, net, check >>

\* line 76: the call creates its policy.
ConcEnter(c) ==
    LET me == conc.callers[c]
    IN  /\ me.pc = "entry"
        /\ conc' = [conc EXCEPT
                      !.policies[BackoffOf(c)] =
                          backoffRetries(me.maxElapsedTime, me.maxRetries,
                                         conc.now),
                      !.callers[c].entered = conc.now,
                      !.callers[c].pc = "loop"]
        /\ ConcFrame

\* lines 78-86: the loop guard and one attempt through f.rosettaClient.
ConcAttempt(c) ==
    LET me == conc.callers[c]
    IN  /\ me.pc = "loop"
        /\ IF ~LoopGuard(me.ctxErr)
           THEN conc' = [conc EXCEPT !.callers[c].pc = "done",
                                     !.callers[c].exit = "ctx78"]
           ELSE /\ me.calls < MaxCalls
                /\ \E h \in ConcOutcomes :
                      LET r == AccountBalance(AccountAPIAccountBalance(h))
                      IN  conc' =
                            [conc EXCEPT
                               !.callers[c].calls = @ + 1,
                               !.callers[c].err = r.err,
                               !.callers[c].pc =
                                   IF AttemptReturns(r) THEN "done"
                                   ELSE "tryAgain",
                               !.callers[c].exit =
                                   IF AttemptReturns(r) THEN "return85"
                                   ELSE @]
        /\ ConcFrame

\* lines 88-93: the decision after a failed attempt, on the call's policy.
ConcTryAgain(c) ==
    LET me == conc.callers[c]
        d == tryAgain(conc.policies[BackoffOf(c)], me.err[1], conc.now, 0)
    IN  /\ me.pc = "tryAgain"
        /\ conc' =
             [conc EXCEPT
                !.policies[BackoffOf(c)] = d.backoff,
                !.callers[c].retried = IF d.again THEN @ + 1 ELSE @,
                !.callers[c].pc = IF Breaks(d.again) THEN "done" ELSE "loop",
                !.callers[c].exit = IF Breaks(d.again) THEN "break89" ELSE @]
        /\ ConcFrame

\* The context of one call is cancelled.
ConcCancel(c) ==
    /\ conc.callers[c].pc # "done"
    /\ ~conc.callers[c].ctxErr
    /\ conc' = [conc EXCEPT !.callers[c].ctxErr = TRUE]
    /\ ConcFrame

\* Time passes.
ConcTick ==
    /\ conc.now < MaxElapsedBound
    /\ \E c \in Callers : conc.callers[c].pc # "done"
    /\ conc' = [conc EXCEPT !.now = @ + 1]
    /\ ConcFrame

ConcNext ==
    \/ \E c \in Callers : ConcEnter(c)
    \/ \E c \in Callers : ConcAttempt(c)
    \/ \E c \in Callers : ConcTryAgain(c)
    \/ \E c \in Callers : ConcCancel(c)
    \/ ConcTick

ConcSpec == ConcInit /\ [][ConcNext]_vars

\* What a call on its own makes of its bounds, whatever the other call does.
OwnOutcome(c) ==
    LET me == conc.callers[c]
    IN  /\ me.calls <= me.maxRetries + 1
        /\ me.retried <= me.maxRetries
        /\ me.pc = "loop" => me.calls = me.retried
        /\ me.pc = "tryAgain" => me.calls = me.retried + 1
        /\ me.pc \in {"loop", "tryAgain"} =>
               conc.policies[c] =
                   [maxElapsedTime |-> me.maxElapsedTime,
                    maxRetries |-> me.maxRetries,
                    numTries |-> me.retried, start |-> me.entered]
        /\ me.exit = "ctx78" => me.ctxErr
        /\ me.exit = "return85" => me.err = Nil /\ me.calls = me.retried + 1
        /\ me.exit = "break89" =>
               /\ me.err # Nil
               /\ me.calls = me.retried + 1
               /\ \/ Permanent(me.err[1])
                  \/ me.retried >= me.maxRetries
                  \/ conc.now - me.entered >= me.maxElapsedTime

\* A step touches one call at most, and nothing of the others.
OneCallPerStep ==
    \E c \in Callers :
        \A o \in Callers \ {c} :
            /\ conc'.callers[o] = conc.callers[o]
            /\ conc'.policies[o] = conc.policies[o]

\* C18: concurrent AccountBalanceRetry calls on one Fetcher are independent:
\* each has its own policy and attempt counter, so the attempts and the
\* outcome of a call follow from its own bounds, results and cancellation
\* under every interleaving, no step of one call changes anything of the
\* other, and the shared rosettaClient is never reassigned.
C18_IndependentCalls ==
    /\ [](\A c \in Callers : OwnOutcome(c))
    /\ [](conc.rosettaClient = "client")
    /\ [][OneCallPerStep]_vars

\* Call "a" has used up a budget of one retry while call "b", with a larger
\* budget and cancelled, returned at the loop guard after one attempt.
C18_Witness ==
    /\ conc.callers["a"].pc = "done" /\ conc.callers["b"].pc = "done"
    /\ conc.callers["a"].maxRetries = 1 /\ conc.callers["a"].calls = 2
    /\ conc.callers["a"].exit = "break89" /\ ~conc.callers["a"].ctxErr
    /\ conc.callers["b"].maxRetries = 2 /\ conc.callers["b"].calls = 1
    /\ conc.callers["b"].exit = "ctx78"

====
